---------------------------- MODULE Spec2Model ----------------------------
(***************************************************************************)
(* Model of src/hw3c.py: the Cholesky / Doolittle dispatcher.              *)
(*                                                                         *)
(* Numbers.  Python computes in binary floating point (and, after the      *)
(* square root of a negative number, in complex floating point).  The      *)
(* model computes in complex fixed point: a number is a pair <<re, im>>    *)
(* of integers counting units of 1/Scale, and every multiplication,        *)
(* division and square root rounds its result to the nearest unit, the     *)
(* way every floating-point operation rounds to the nearest double.        *)
(* Integers are exact, as Python's are.  Statements "within tolerance"     *)
(* are therefore statements about Tol units of 1/Scale.                    *)
(*                                                                         *)
(* Python's root of a negative number carries a real part of rounding      *)
(* noise (about 1e-16); at 1/Scale it rounds to zero.  For a singular      *)
(* block with a negative leading entry the model therefore meets an exact  *)
(* zero pivot (ZeroDivisionError) where Python divides by the noise and    *)
(* returns values of the order of 1e16.  No property below is about such   *)
(* a block's values.                                                       *)
(***************************************************************************)
EXTENDS Integers, Sequences, FiniteSets

\* Units per 1: the precision of the modelled arithmetic.
Scale == 1000

\* Entries of the generated 1x1 and 2x2 coefficient blocks are in -MaxEntry..MaxEntry.
MaxEntry == 2

\* Right-hand sides of the generated systems have entries in 0..MaxRhs.
MaxRhs == 1

\* The components random.uniform(-1, 1) may return are k/VecDen, k in -VecDen..VecDen.
VecDen == 1

\* Two numbers agree "within tolerance" when they differ by at most Tol units.
Tol == 10

---------------------------------------------------------------------------
(* Scalar arithmetic *)

Abs(n) == IF n < 0 THEN -n ELSE n

Sgn(n) == IF n < 0 THEN -1 ELSE IF n > 0 THEN 1 ELSE 0

\* a / b rounded to the nearest integer, halves away from zero (b # 0).
RoundDiv(a, b) ==
  LET q == Abs(a) \div Abs(b)
      r == Abs(a) % Abs(b)
  IN Sgn(a) * Sgn(b) * (IF r >= Abs(b) - r THEN q + 1 ELSE q)

RECURSIVE ISqrtSearch(_, _, _)
\* The largest k in lo..hi with k * k <= n (lo * lo <= n).
ISqrtSearch(n, lo, hi) ==
  IF lo >= hi THEN lo
  ELSE LET mid == (lo + hi + 1) \div 2
       IN IF mid * mid <= n THEN ISqrtSearch(n, mid, hi)
          ELSE ISqrtSearch(n, lo, mid - 1)

\* The square root of n >= 0 rounded to the nearest integer.
ISqrt(n) ==
  LET k == ISqrtSearch(n, 0, 46340)
  IN IF n - k * k > k THEN k + 1 ELSE k

\* A Python int as a number of the arithmetic.
Num(n) == <<n * Scale, 0>>

Zero == <<0, 0>>

IsZero(v) == v[1] = 0 /\ v[2] = 0

Add(u, v) == <<u[1] + v[1], u[2] + v[2]>>

Sub(u, v) == <<u[1] - v[1], u[2] - v[2]>>

\* a * b for reals a, b in units: a * b / Scale rounded to the nearest unit.
\* The product is formed in parts, so that no intermediate value is larger
\* than the result.
MulUnits(a, b) ==
  LET qa == Abs(a) \div Scale
      ra == Abs(a) % Scale
      qb == Abs(b) \div Scale
      rb == Abs(b) % Scale
  IN Sgn(a) * Sgn(b) * (qa * qb * Scale + qa * rb + ra * qb + RoundDiv(ra * rb, Scale))

\* a / b for reals a, b # 0 in units, rounded to the nearest unit (in parts,
\* as MulUnits).
DivUnits(a, b) ==
  Sgn(a) * Sgn(b) *
    ((Abs(a) \div Abs(b)) * Scale + RoundDiv((Abs(a) % Abs(b)) * Scale, Abs(b)))

\* u * v: (a + bi)(c + di) = (ac - bd) + (ad + bc)i.
Mul(u, v) ==
  <<MulUnits(u[1], v[1]) - MulUnits(u[2], v[2]),
    MulUnits(u[1], v[2]) + MulUnits(u[2], v[1])>>

\* u / v for v # 0.
Div(u, v) ==
  CASE v[2] = 0 -> <<DivUnits(u[1], v[1]), DivUnits(u[2], v[1])>>
    [] v[1] = 0 -> <<DivUnits(u[2], v[2]), DivUnits(-u[1], v[2])>>
    [] OTHER ->
       LET m == MulUnits(v[1], v[1]) + MulUnits(v[2], v[2])
           re == MulUnits(u[1], v[1]) + MulUnits(u[2], v[2])
           im == MulUnits(u[2], v[1]) - MulUnits(u[1], v[2])
       IN <<DivUnits(re, m), DivUnits(im, m)>>

\* Sqrt with the exponent of "** 0.5" lost.
SqrtOmitted(v) == v

\* v ** 0.5 for a real v: the real root of v >= 0; for v < 0 Python returns a
\* complex number, the principal root i * sqrt(-v).
Sqrt(v) ==
  CASE v[2] = 0 /\ v[1] >= 0 -> <<ISqrt(v[1] * Scale), 0>>
    [] v[2] = 0 /\ v[1] < 0 -> <<0, ISqrt((-v[1]) * Scale)>>

RECURSIVE SumTo(_, _, _)
\* sum(f[k] for k in lo..hi), accumulated from 0 as Python's sum does.
SumTo(f, lo, hi) == IF hi < lo THEN Zero ELSE Add(SumTo(f, lo, hi - 1), f[hi])

---------------------------------------------------------------------------
(* Matrices: sequences of rows, indexed from 1 (Python indexes from 0). *)

\* gs.separateAugmented: A is every column but the last, b the last column.
separateAugmented(matrix_aug) ==
  [matrix |-> [i \in 1..Len(matrix_aug) |->
                 SubSeq(matrix_aug[i], 1, Len(matrix_aug[i]) - 1)],
   vector |-> [i \in 1..Len(matrix_aug) |-> matrix_aug[i][Len(matrix_aug[i])]]]

\* [[matrix[j][i] for j in range(len(matrix))] for i in range(len(matrix[0]))]
compute_transpose(matrix) ==
  [i \in 1..Len(matrix[1]) |-> [j \in 1..Len(matrix) |-> matrix[j][i]]]

\* [[0.0] * size for _ in range(size)]
ZeroMatrix(size) == [i \in 1..size |-> [j \in 1..size |-> Zero]]

\* matrix[i][j] - sum(lower[i][k] * lower[j][k] for k in range(j)); for i = j
\* the radicand matrix[i][i] - sum(lower[i][k] ** 2 for k in range(i)).
Residue(matrix, lower, i, j) ==
  Sub(matrix[i][j], SumTo([k \in 1..(j - 1) |-> Mul(lower[i][k], lower[j][k])], 1, j - 1))

\* CholeskyEntry with the diagonal's sum of squares left out.
CholeskyEntryNoSum(matrix, lower, i, j) ==
  IF i = j THEN Sqrt(matrix[i][j])
  ELSE Div(Residue(matrix, lower, i, j), lower[j][j])

\* The entry the factoring loop stores at lower[i][j], j <= i.
CholeskyEntry(matrix, lower, i, j) ==
  IF i = j THEN Sqrt(Residue(matrix, lower, i, j))
  ELSE Div(Residue(matrix, lower, i, j), lower[j][j])

\* F(v) with v computed once, as an assignment to a Python local computes it.
Bind(v, F(_)) == CHOOSE r \in { F(x) : x \in {v} } : TRUE

RECURSIVE CholeskyLoop(_, _, _, _)
\* for i in range(size): for j in range(i + 1): ..., from entry (i, j) on.
\* matrix[i][j] is read before the division: an IndexError comes first.
CholeskyLoop(matrix, lower, i, j) ==
  IF i > Len(matrix) THEN [raised |-> "none", lower |-> lower]
  ELSE IF j > Len(matrix[i]) THEN [raised |-> "IndexError", lower |-> lower]
  ELSE IF i # j /\ IsZero(lower[j][j])
       THEN [raised |-> "ZeroDivisionError", lower |-> lower]
  ELSE Bind([lower EXCEPT ![i][j] = CholeskyEntry(matrix, lower, i, j)],
            LAMBDA next : IF j = i THEN CholeskyLoop(matrix, next, i + 1, 1)
                          ELSE CholeskyLoop(matrix, next, i, j + 1))

RECURSIVE ForwardLoop(_, _, _, _)
\* for i in range(n): y[i] = (vector[i] - sum(lower[i][j] * y[j] ...)) / lower[i][i]
ForwardLoop(lower, vector, y, i) ==
  IF i > Len(vector) THEN [raised |-> "none", y |-> y]
  ELSE IF IsZero(lower[i][i]) THEN [raised |-> "ZeroDivisionError", y |-> y]
  ELSE LET s == SumTo([j \in 1..(i - 1) |-> Mul(lower[i][j], y[j])], 1, i - 1)
       IN Bind([y EXCEPT ![i] = Div(Sub(vector[i], s), lower[i][i])],
               LAMBDA next : ForwardLoop(lower, vector, next, i + 1))

\* forward_substitution with its loop started one row late.
forward_substitution_late(lower, vector) ==
  ForwardLoop(lower, vector, [i \in 1..Len(vector) |-> Zero], 2)

forward_substitution(lower, vector) ==
  ForwardLoop(lower, vector, [i \in 1..Len(vector) |-> Zero], 1)

RECURSIVE BackwardLoop(_, _, _, _)
\* for i in range(n - 1, -1, -1): x[i] = (vector[i] - sum(upper[i][j] * x[j] ...)) / upper[i][i]
BackwardLoop(upper, vector, x, i) ==
  IF i < 1 THEN [raised |-> "none", x |-> x]
  ELSE IF IsZero(upper[i][i]) THEN [raised |-> "ZeroDivisionError", x |-> x]
  ELSE LET n == Len(vector)
           s == SumTo([j \in (i + 1)..n |-> Mul(upper[i][j], x[j])], i + 1, n)
       IN Bind([x EXCEPT ![i] = Div(Sub(vector[i], s), upper[i][i])],
               LAMBDA next : BackwardLoop(upper, vector, next, i - 1))

\* backward_substitution with its loop started at n - 2 instead of n - 1.
backward_substitution_short(upper, vector) ==
  BackwardLoop(upper, vector, [i \in 1..Len(vector) |-> Zero], Len(vector) - 1)

backward_substitution(upper, vector) ==
  BackwardLoop(upper, vector, [i \in 1..Len(vector) |-> Zero], Len(vector))

\* What decompose_cholesky does when an exception ends it.
Raise(e) == [raised |-> e, x |-> <<>>, lower |-> <<>>, upper |-> <<>>]

\* Lines 90-97: upper = compute_transpose(lower), the two substitutions, return.
SolveWith(fac, vector) ==
  IF fac.raised # "none" THEN Raise(fac.raised)
  ELSE Bind(forward_substitution(fac.lower, vector), LAMBDA fwd :
         IF fwd.raised # "none" THEN Raise(fwd.raised)
         ELSE Bind(backward_substitution(compute_transpose(fac.lower), fwd.y), LAMBDA bwd :
                IF bwd.raised # "none" THEN Raise(bwd.raised)
                ELSE [raised |-> "none", x |-> bwd.x, lower |-> fac.lower,
                      upper |-> compute_transpose(fac.lower)]))

\* decompose_cholesky(matrix_aug): (x, lower, upper), or the exception raised.
decompose_cholesky(matrix_aug) ==
  Bind(separateAugmented(matrix_aug), LAMBDA sep :
    Bind(CholeskyLoop(sep.matrix, ZeroMatrix(Len(sep.matrix)), 1, 1), LAMBDA fac :
      SolveWith(fac, sep.vector)))

\* sum(rv[i] * sum(matrix[i][j] * rv[j] for j in range(n)) for i in range(n))
quadratic_form(matrix, rv) ==
  LET n == Len(matrix)
      row(i) == SumTo([j \in 1..n |-> Mul(matrix[i][j], rv[j])], 1, n)
  IN SumTo([i \in 1..n |-> Mul(rv[i], row(i))], 1, n)

\* The classifier drawing its vector before it compares with the transpose.
check_draws_first(matrix, rv) ==
  [result |-> matrix = compute_transpose(matrix) /\ quadratic_form(matrix, rv)[1] > 0,
   drawn |-> Len(matrix)]

\* The classifier with its final comparison turned round.
check_sign_turned(matrix, rv) ==
  IF matrix # compute_transpose(matrix) THEN [result |-> FALSE, drawn |-> 0]
  ELSE [result |-> quadratic_form(matrix, rv)[1] < 0, drawn |-> Len(matrix)]

\* check_symmetric_positive_definite(matrix), rv being the vector the random
\* generator yields if it is asked: the value returned and the number of
\* random.uniform calls made.
check_symmetric_positive_definite(matrix, rv) ==
  IF matrix # compute_transpose(matrix) THEN [result |-> FALSE, drawn |-> 0]
  ELSE [result |-> quadratic_form(matrix, rv)[1] > 0, drawn |-> Len(matrix)]

---------------------------------------------------------------------------
(* dm.Doolittle, the external general solver: for a non-singular square    *)
(* system it returns the solution of A x = b.                              *)

\* The Python int a number of the arithmetic stands for.
ToInt(v) == v[1] \div Scale

IsSquare(matrix) == \A i \in 1..Len(matrix) : Len(matrix[i]) = Len(matrix)

\* matrix without row r and column c.
Minor(matrix, r, c) ==
  LET n == Len(matrix)
      keep(k, skip) == IF k < skip THEN k ELSE k + 1
  IN [i \in 1..(n - 1) |-> [j \in 1..(n - 1) |-> matrix[keep(i, r)][keep(j, c)]]]

RECURSIVE Det(_)
\* The determinant of a square matrix of Python ints, along its first row.
Det(matrix) ==
  LET n == Len(matrix)
      term(j) == (IF j % 2 = 1 THEN 1 ELSE -1) * ToInt(matrix[1][j]) * Det(Minor(matrix, 1, j))
      RECURSIVE Terms(_)
      Terms(j) == IF j = 0 THEN 0 ELSE Terms(j - 1) + term(j)
  IN IF n = 0 THEN 1 ELSE Terms(n)

\* Whether Doolittle's contract covers the system.
WellPosed(matrix_aug) ==
  LET sep == separateAugmented(matrix_aug)
  IN IsSquare(sep.matrix) /\ Det(sep.matrix) # 0

\* Doolittle(matrix_aug) on a system its contract covers (Cramer's rule).
Doolittle(matrix_aug) ==
  LET sep == separateAugmented(matrix_aug)
      n == Len(sep.matrix)
      swap(c) == [i \in 1..n |-> [j \in 1..n |->
                    IF j = c THEN sep.vector[i] ELSE sep.matrix[i][j]]]
  IN [c \in 1..n |-> <<RoundDiv(Det(swap(c)) * Scale, Det(sep.matrix)), 0>>]

---------------------------------------------------------------------------
(* Inputs *)

\* A matrix of Python ints as a matrix of the arithmetic.
M(rows) == [i \in 1..Len(rows) |-> [j \in 1..Len(rows[i]) |-> Num(rows[i][j])]]

\* The list `matrices` of execute_main.
HardCoded ==
  << M(<< <<1, -1, 3, 2, 15>>, <<-1, 5, -5, -2, -35>>,
          <<3, -5, 19, 3, 94>>, <<2, -2, 3, 21, 1>> >>),
     M(<< <<4, 2, 4, 0, 20>>, <<2, 2, 3, 2, 36>>,
          <<4, 3, 6, 3, 60>>, <<0, 2, 3, 9, 122>> >>) >>

Entries == (-MaxEntry)..MaxEntry

Rhs == 0..MaxRhs

\* Every 1x1 and 2x2 coefficient block with small entries (symmetric or not;
\* definite, indefinite or singular), with the right-hand sides [r] and
\* [r, MaxRhs].
Generated ==
  { M(<< <<a, r>> >>) : a \in Entries, r \in Rhs }
  \cup { M(<< <<t[1], t[2], r>>, <<t[3], t[4], MaxRhs>> >>) :
           t \in Entries \X Entries \X Entries \X Entries, r \in Rhs }

\* Systems chosen by hand: two with irrational factors, a 3x3 one, a wide
\* and a narrow augmented matrix.
Chosen ==
  { M(<< <<4, 2, 4>>, <<2, 3, 5>> >>),
    M(<< <<9, 6>> >>),
    M(<< <<4, 2, 2, 8>>, <<2, 5, 3, 10>>, <<2, 3, 6, 11>> >>),
    M(<< <<4, 2, 7, 4>>, <<2, 3, 9, 5>> >>),
    M(<< <<4, 4>>, <<2, 5>> >>) }

Inputs == Generated \cup Chosen

\* The vectors [random.uniform(-1, 1) for _ in range(n)] may yield.
Vectors(n) ==
  [1..n -> { <<RoundDiv(k * Scale, VecDen), 0>> : k \in (-VecDen)..VecDen }]

---------------------------------------------------------------------------
(* The program *)

VARIABLES
  entry,          \* the function called: "execute_main" or "decompose_cholesky"
  matrices,       \* execute_main: the list it loops over; decompose_cholesky: its argument
  index,          \* execute_main: the loop's index, from 1
  pc,             \* the statement about to run
  A, b,           \* execute_main: the coefficient block and right-hand side
  random_vector,  \* the vector the classifier drew for this matrix, <<>> if none
  draws,          \* the number of random.uniform calls made so far
  zero_vectors,   \* how many of the vectors drawn so far were all zeros
  spd,            \* what check_symmetric_positive_definite(A) returned
  solution,       \* the x last returned by a solver
  lower, upper,   \* the factors last returned by decompose_cholesky
  method_name,    \* execute_main: the method recorded for this matrix
  invoked,        \* the solvers called for this matrix, in order
  raised,         \* the exception that ended the program, "none" if none
  output          \* the lines printed: index, method and solution

vars == <<entry, matrices, index, pc, A, b, random_vector, draws, zero_vectors, spd, solution,
          lower, upper, method_name, invoked, raised, output>>

Init ==
  /\ \/ entry = "execute_main" /\ matrices \in {HardCoded} \cup { <<m>> : m \in Inputs }
     \/ entry = "decompose_cholesky" /\ matrices \in { <<m>> : m \in Inputs }
  /\ pc = IF entry = "execute_main" THEN "separate" ELSE "call"
  /\ index = 1
  /\ A = <<>> /\ b = <<>>
  /\ random_vector = <<>>
  /\ draws = 0
  /\ zero_vectors = 0
  /\ spd = FALSE
  /\ solution = <<>> /\ lower = <<>> /\ upper = <<>>
  /\ method_name = ""
  /\ invoked = <<>>
  /\ raised = "none"
  /\ output = <<>>

\* A, b = gs.separateAugmented(matrix)   (b comes back flat: nothing to flatten)
Separate ==
  /\ pc = "separate"
  /\ A' = separateAugmented(matrices[index]).matrix
  /\ b' = separateAugmented(matrices[index]).vector
  /\ random_vector' = <<>>
  /\ invoked' = <<>>
  /\ pc' = "classify"
  /\ UNCHANGED <<entry, matrices, index, draws, zero_vectors, spd, solution, lower, upper,
                 method_name, raised, output>>

\* The branches of the if statement taken the wrong way round.
RouteSwapped(result) == IF result THEN "doolittle" ELSE "cholesky"

\* if check_symmetric_positive_definite(A): ... else: ...
Route(result) == IF result THEN "cholesky" ELSE "doolittle"

\* if check_symmetric_positive_definite(A):
Classify ==
  /\ pc = "classify"
  /\ \E rv \in Vectors(Len(A)) :
       LET r == check_symmetric_positive_definite(A, rv)
       IN /\ spd' = r.result
          /\ draws' = draws + r.drawn
          /\ random_vector' = IF r.drawn = 0 THEN <<>> ELSE rv
          /\ zero_vectors' = IF r.drawn # 0 /\ (\A i \in DOMAIN rv : IsZero(rv[i]))
                             THEN zero_vectors + 1 ELSE zero_vectors
          /\ pc' = Route(r.result)
  /\ UNCHANGED <<entry, matrices, index, A, b, solution, lower, upper,
                 method_name, invoked, raised, output>>

\* solution, _, _ = decompose_cholesky(matrix); method_name = "Cholesky"
CholeskyPath ==
  /\ pc = "cholesky"
  /\ invoked' = Append(invoked, "decompose_cholesky")
  /\ \E r \in {decompose_cholesky(matrices[index])} :
        IF r.raised # "none"
        THEN /\ raised' = r.raised
             /\ pc' = "raised"
             /\ UNCHANGED <<solution, lower, upper, method_name>>
        ELSE /\ solution' = r.x
             /\ lower' = r.lower
             /\ upper' = r.upper
             /\ method_name' = "Cholesky"
             /\ pc' = "print"
             /\ UNCHANGED raised
  /\ UNCHANGED <<entry, matrices, index, A, b, random_vector, draws, zero_vectors, spd,
                 output>>

\* solution = dm.Doolittle(matrix); method_name = "Doolittle"
\* Outside its contract the external solver may raise or return anything.
GeneralPath ==
  /\ pc = "doolittle"
  /\ invoked' = Append(invoked, "Doolittle")
  /\ \/ /\ WellPosed(matrices[index])
        /\ solution' = Doolittle(matrices[index])
        /\ method_name' = "Doolittle"
        /\ pc' = "print"
        /\ UNCHANGED raised
     \/ /\ ~WellPosed(matrices[index])
        /\ solution' = <<>>
        /\ method_name' = "Doolittle"
        /\ pc' = "print"
        /\ UNCHANGED raised
     \/ /\ ~WellPosed(matrices[index])
        /\ raised' = "DoolittleError"
        /\ pc' = "raised"
        /\ UNCHANGED <<solution, method_name>>
  /\ UNCHANGED <<entry, matrices, index, A, b, random_vector, draws, zero_vectors, spd,
                 lower, upper, output>>

\* print(f"Solution for Matrix {index} using {method_name} method: {solution}\n")
Report ==
  /\ pc = "print"
  /\ output' = Append(output, [index |-> index, method |-> method_name, x |-> solution])
  /\ IF index < Len(matrices)
     THEN index' = index + 1 /\ pc' = "separate"
     ELSE index' = index /\ pc' = "done"
  /\ UNCHANGED <<entry, matrices, A, b, random_vector, draws, zero_vectors, spd, solution,
                 lower, upper, method_name, invoked, raised>>

\* A caller's decompose_cholesky(matrix_aug).
Call ==
  /\ pc = "call"
  /\ invoked' = Append(invoked, "decompose_cholesky")
  /\ \E r \in {decompose_cholesky(matrices[index])} :
        IF r.raised # "none"
        THEN /\ raised' = r.raised
             /\ pc' = "raised"
             /\ UNCHANGED <<solution, lower, upper>>
        ELSE /\ solution' = r.x
             /\ lower' = r.lower
             /\ upper' = r.upper
             /\ pc' = "returned"
             /\ UNCHANGED raised
  /\ UNCHANGED <<entry, matrices, index, A, b, random_vector, draws, zero_vectors, spd,
                 method_name, output>>

Next == Separate \/ Classify \/ CholeskyPath \/ GeneralPath \/ Report \/ Call

Spec == Init /\ [][Next]_vars

---------------------------------------------------------------------------
(* Notions the properties are stated in *)

\* The augmented matrix of the solve in progress, and its coefficient block
\* and right-hand side.
Current == matrices[index]

Block == separateAugmented(Current).matrix

RightHandSide == separateAugmented(Current).vector

\* The k x k leading block of a matrix.
Leading(matrix, k) == [i \in 1..k |-> [j \in 1..k |-> matrix[i][j]]]

\* A = A^T and v^T A v > 0 for every nonzero v: by Sylvester's criterion, a
\* symmetric matrix all of whose leading principal minors are positive.
IsSPD(matrix) ==
  /\ IsSquare(matrix)
  /\ matrix = compute_transpose(matrix)
  /\ \A k \in 1..Len(matrix) : Det(Leading(matrix, k)) > 0

\* u and v differ by at most Tol units.
Within(u, v) == Abs(u[1] - v[1]) <= Tol /\ Abs(u[2] - v[2]) <= Tol

\* A whole number of the arithmetic, such as a Python int or 2.0.
IsWhole(v) == v[1] % Scale = 0 /\ v[2] = 0

\* (P * Q)[i][j] for matrices P and Q.
Product(P, Q, i, j) == SumTo([k \in 1..Len(Q) |-> Mul(P[i][k], Q[k][j])], 1, Len(Q))

\* (P * x)[i] for a matrix P and a vector x.
Applied(P, x, i) == SumTo([k \in 1..Len(x) |-> Mul(P[i][k], x[k])], 1, Len(x))

\* decompose_cholesky was called for the current matrix and has returned.
CholeskyReturned ==
  /\ invoked = <<"decompose_cholesky">>
  /\ pc \in {"print", "returned"}

\* Every component of the vector the classifier drew is zero.
DrewZeroVector == random_vector # <<>> /\ \A i \in DOMAIN random_vector : IsZero(random_vector[i])

---------------------------------------------------------------------------
(* C1 *)

\* C1: in every solve of execute_main's loop body the branch taken is the one
\* the classifier's result on A names (true: decompose_cholesky, false:
\* Doolittle on the augmented matrix), and the method recorded and printed is
\* the one of the solver that produced the solution.
MethodFollowsClassifier ==
  entry = "execute_main" =>
    /\ pc \in {"cholesky", "doolittle", "print"} =>
         spd = check_symmetric_positive_definite(A,
                 IF random_vector = <<>> THEN [i \in 1..Len(A) |-> Zero]
                 ELSE random_vector).result
    /\ pc = "cholesky" => spd /\ invoked = <<>>
    /\ pc = "doolittle" => ~spd /\ invoked = <<>>
    /\ pc = "print" =>
         /\ spd => /\ method_name = "Cholesky"
                   /\ invoked = <<"decompose_cholesky">>
                   /\ solution = decompose_cholesky(Current).x
         /\ ~spd => /\ method_name = "Doolittle"
                    /\ invoked = <<"Doolittle">>
                    /\ WellPosed(Current) => solution = Doolittle(Current)
    /\ pc \in {"separate", "done"} /\ output # <<>> =>
         /\ output[Len(output)].method = method_name
         /\ output[Len(output)].x = solution
         /\ method_name = IF spd THEN "Cholesky" ELSE "Doolittle"

\* Both branches were taken in one run, and their methods printed.
BothMethodsPrinted ==
  /\ pc = "done"
  /\ Len(output) = 2
  /\ output[1].method = "Cholesky"
  /\ output[2].method = "Doolittle"

---------------------------------------------------------------------------
(* C2 *)

LowerTriangular(matrix) ==
  \A i \in 1..Len(matrix) : \A j \in (i + 1)..Len(matrix) : IsZero(matrix[i][j])

\* C2: for a symmetric positive-definite block A, decompose_cholesky returns
\* (it raises nothing), its lower is lower-triangular, lower * lower^T is A
\* within tolerance, and exactly A when the entries of lower are whole
\* numbers, and its upper is the transpose of lower.
CholeskyFactorsSPD ==
  IsSPD(Block) /\ "decompose_cholesky" \in { invoked[k] : k \in DOMAIN invoked } =>
    /\ raised = "none"
    /\ CholeskyReturned =>
         /\ LowerTriangular(lower)
         /\ upper = compute_transpose(lower)
         /\ \A i, j \in 1..Len(Block) : Within(Product(lower, upper, i, j), Block[i][j])
         /\ (\A i, j \in 1..Len(lower) : IsWhole(lower[i][j])) =>
              \A i, j \in 1..Len(Block) : Product(lower, upper, i, j) = Block[i][j]

\* A positive-definite block was factored, and its factor has an irrational entry.
FactoredSPD ==
  /\ CholeskyReturned
  /\ IsSPD(Block)
  /\ Len(Block) >= 2
  /\ \E i \in 1..Len(lower) : ~IsWhole(lower[i][i])

---------------------------------------------------------------------------
(* C3 *)

\* C3: for an augmented matrix whose block A is symmetric positive-definite
\* (the second matrix of execute_main among them) the solution x satisfies
\* A x = b within tolerance whichever solver produced it, and on the Cholesky
\* path x is forward substitution on lower followed by backward substitution
\* on its transpose.
SolutionSolvesSPD ==
  IsSPD(Block) /\ pc \in {"print", "returned"} =>
    /\ \A i \in 1..Len(Block) : Within(Applied(Block, solution, i), RightHandSide[i])
    /\ CholeskyReturned =>
         solution = backward_substitution(compute_transpose(lower),
                      forward_substitution(lower, RightHandSide).y).x

\* execute_main has solved its second matrix by Cholesky: x = [6, -2, 0, 14].
SecondMatrixSolved ==
  /\ matrices = HardCoded
  /\ index = 2
  /\ pc = "print"
  /\ method_name = "Cholesky"
  /\ solution = <<Num(6), Num(-2), Num(0), Num(14)>>

---------------------------------------------------------------------------
(* C7 *)

\* The decimal n / d as a number of the arithmetic.
Dec(n, d) == <<RoundDiv(n * Scale, d), 0>>

\* A = [[4, 2], [2, 3]], b = [4, 5].
ExampleSystem == M(<< <<4, 2, 4>>, <<2, 3, 5>> >>)

ExampleFactor ==
  /\ Within(lower[1][1], Num(2)) /\ Within(lower[1][2], Zero)
  /\ Within(lower[2][1], Num(1)) /\ Within(lower[2][2], Dec(14142, 10000))

\* C7 as stated: for A = [[4, 2], [2, 3]], b = [4, 5] the Cholesky path gives
\* L ~ [[2, 0], [1, 1.4142]] and x ~ [0.5, 1.5].
ExampleSolvesAsStated ==
  Current = ExampleSystem /\ CholeskyReturned =>
    /\ ExampleFactor
    /\ Within(solution[1], Dec(5, 10)) /\ Within(solution[2], Dec(15, 10))

\* C7 amended: for A = [[4, 2], [2, 3]], b = [4, 5] the Cholesky path raises
\* nothing and gives L ~ [[2, 0], [1, 1.4142]] and x ~ [0.25, 1.5].
ExampleSolves ==
  Current = ExampleSystem /\ invoked = <<"decompose_cholesky">> =>
    /\ raised = "none"
    /\ CholeskyReturned =>
         /\ ExampleFactor
         /\ Within(solution[1], Dec(25, 100)) /\ Within(solution[2], Dec(15, 10))

\* execute_main has solved the example system by Cholesky.
ExampleSolved ==
  /\ entry = "execute_main"
  /\ Current = ExampleSystem
  /\ CholeskyReturned
  /\ Len(solution) = 2

---------------------------------------------------------------------------
(* C8 *)

\* The current system is [[a, b]] with a > 0.
OneByOne == Len(Current) = 1 /\ Len(Current[1]) = 2 /\ Current[1][1][1] > 0

\* C8 as stated: a 1x1 system [[a, b]], a > 0, solves by Cholesky to
\* x = [b / sqrt(a)].
OneByOneAsStated ==
  OneByOne /\ CholeskyReturned =>
    /\ Len(solution) = 1
    /\ Within(solution[1], Div(Current[1][2], Sqrt(Current[1][1])))

\* C8 amended: a 1x1 system [[a, b]], a > 0, solves by Cholesky, raising
\* nothing, to x = [b / a] within tolerance (lower = [[sqrt(a)]] is divided
\* by twice).
OneByOneSolves ==
  OneByOne /\ invoked = <<"decompose_cholesky">> =>
    /\ raised = "none"
    /\ CholeskyReturned =>
         /\ Len(solution) = 1
         /\ lower = << <<Sqrt(Current[1][1])>> >>
         /\ Within(solution[1], Div(Current[1][2], Current[1][1]))

\* A 1x1 system with a # 1 and b # 0 was solved by Cholesky.
OneByOneSolved ==
  /\ OneByOne
  /\ CholeskyReturned
  /\ Current[1][1] # Num(1)
  /\ ~IsZero(solution[1])

---------------------------------------------------------------------------
(* C6 *)

\* C6 as stated: on the two systems of execute_main, whenever no zero vector
\* was drawn, one is solved by Cholesky and the other by Doolittle.
HardCodedOneEach ==
  matrices = HardCoded /\ pc = "done" /\ zero_vectors = 0 =>
    {output[1].method, output[2].method} = {"Cholesky", "Doolittle"}

\* C6 amended: on the two systems of execute_main the classifier draws a
\* vector for each (both blocks are symmetric), and for every nonzero vector
\* it draws the system is solved by Cholesky: both are, when no zero vector
\* was drawn.
HardCodedBothCholesky ==
  entry = "execute_main" /\ matrices = HardCoded =>
    /\ pc \in {"cholesky", "doolittle", "print"} =>
         /\ random_vector # <<>>
         /\ ~DrewZeroVector => spd /\ pc # "doolittle"
    /\ pc = "print" /\ ~DrewZeroVector => method_name = "Cholesky"
    /\ pc = "done" => draws = 8
    /\ pc = "done" /\ zero_vectors = 0 =>
         output[1].method = "Cholesky" /\ output[2].method = "Cholesky"

\* execute_main ran to its end without a zero vector.
HardCodedDone ==
  /\ entry = "execute_main" /\ matrices = HardCoded
  /\ pc = "done"
  /\ zero_vectors = 0
  /\ Len(output) = 2

---------------------------------------------------------------------------
(* C9 *)

\* C9: for a matrix that differs from its transpose the classifier returns
\* false without a call of the random generator, and the generator is only
\* called by the classifier, for a matrix equal to its transpose.
AsymmetricDrawsNothing ==
  [][/\ pc = "classify" /\ A # compute_transpose(A) =>
          ~spd' /\ draws' = draws /\ random_vector' = <<>> /\ pc' = "doolittle"
     /\ draws' # draws => pc = "classify" /\ A = compute_transpose(A)]_vars

\* A square asymmetric block was classified.
AsymmetricClassified ==
  /\ pc = "doolittle"
  /\ IsSquare(A)
  /\ A # compute_transpose(A)
  /\ draws = 0
  /\ ~spd

---------------------------------------------------------------------------
(* C4 *)

\* The radicand of row i: matrix[i][i] - sum(lower[i][k] ** 2 for k < i).
Radicand(i) == Residue(Block, lower, i, i)

\* C4: decompose_cholesky never returns a factor one of whose radicands was
\* negative: such a call ends in an error.
NegativeRadicandRaises ==
  CholeskyReturned => \A i \in 1..Len(lower) : Radicand(i)[1] >= 0

---------------------------------------------------------------------------
(* C5 *)

\* C5: decompose_cholesky never returns a solution for an augmented matrix
\* whose coefficient block is not square: such a call ends in an error.
NonSquareRaises == CholeskyReturned => IsSquare(Block)

---------------------------------------------------------------------------
(* C10 *)

\* C10: in a solve of execute_main, once the classifier has returned true
\* Doolittle is not called for that matrix; and a failure on the Cholesky
\* path, a zero pivot or a negative radicand, ends the call in an error, with
\* no solution printed for that matrix.
CholeskyFailureIsFatal ==
  entry = "execute_main" =>
    /\ spd /\ pc \in {"cholesky", "print", "raised"} =>
         \A k \in DOMAIN invoked : invoked[k] # "Doolittle"
    /\ pc = "print" /\ invoked = <<"decompose_cholesky">> =>
         \A i \in 1..Len(lower) : Radicand(i)[1] >= 0 /\ ~IsZero(lower[i][i])
    /\ pc = "raised" => Len(output) = index - 1

\* The part of C10 that the code keeps: no fallback to Doolittle, and
\* nothing printed for a matrix whose solve raised.
NoFallback ==
  entry = "execute_main" =>
    /\ spd /\ pc \in {"cholesky", "print", "raised"} =>
         \A k \in DOMAIN invoked : invoked[k] # "Doolittle"
    /\ pc = "raised" => Len(output) = index - 1

=============================================================================
